---- MODULE Spec2Model ----
(***************************************************************************)
(* Verification model of openfermion.utils._linear_qubit_operator and      *)
(* openfermion.utils._davidson.                                            *)
(*                                                                         *)
(* Numbers.  Operator coefficients and state vectors are Gaussian          *)
(* integers <<re, im>>, so the matrix-free application is exact.           *)
(***************************************************************************)
EXTENDS Integers, Sequences, FiniteSets, TLC

VARIABLES
    \* LinearQubitOperator: constructor arguments, fields and the _matvec loop
    qubit_operator, n_qubits_arg, n_qubits, x, retvec, term_index, lqo_pc,
    \* LinearQubitOperatorOptions: the request, the machine and the object
    processes_arg, cpu_count, options_processes, get_num, get_result, opt_pc,
    \* ParallelLinearQubitOperator: fields, the pool's jobs and the result
    par_operator, par_n_qubits_arg, par_n_qubits, qubit_operator_groups, par_x,
    pool_processes, job, job_result, finish_order, par_retvec, par_pc,
    \* Davidson.orthonormalize called on its own: the arguments, the array it
    \* works on in place and the number of columns it returns
    orth_eps, vectors, num_orthonormals, ortho_normals, count_orthonormals, orth_pc,
    \* Davidson: the solver's fields and the arguments of get_lowest_n
    linear_operator, linear_operator_diagonal, eps, n_lowest, initial_guess_arg,
    max_iterations,
    \* get_lowest_n and append_random_vectors: the locals
    initial_guess, vector_columns, total_columns, num_trial, guess_v, guess_mv, success,
    num_iterations, eigen_values, eigen_vectors, eigen_bound, max_trial_error, dav_pc,
    \* what the run has done: operator applications per column of guess_v, the
    \* projections formed, the basis and cache of the last one, the random
    \* rounds of the last expansion
    apply_count, projections, proj_v, proj_mv, inject_rounds, inject_sizes,
    \* the steps get_lowest_n has taken
    dav_steps

lqoVars == <<qubit_operator, n_qubits_arg, n_qubits, x, retvec, term_index, lqo_pc>>

optVars == <<processes_arg, cpu_count, get_num, get_result, opt_pc>>

parVars == <<par_operator, par_n_qubits_arg, par_n_qubits, qubit_operator_groups,
             par_x, pool_processes, job, job_result, finish_order, par_retvec, par_pc>>

orthVars == <<orth_eps, vectors, num_orthonormals, ortho_normals, count_orthonormals,
              orth_pc>>

davArgs == <<linear_operator, linear_operator_diagonal, eps, n_lowest, initial_guess_arg,
             max_iterations>>

davAppend == <<initial_guess, vector_columns, total_columns, num_trial>>

davLoop == <<guess_v, guess_mv, success, num_iterations, eigen_values, eigen_vectors,
             eigen_bound, max_trial_error>>

davHistory == <<apply_count, projections, proj_v, proj_mv, inject_rounds, inject_sizes>>

davVars == <<davArgs, davAppend, davLoop, davHistory, dav_pc, dav_steps>>

vars == <<lqoVars, optVars, options_processes, parVars, orthVars, davVars>>

notLqo == <<optVars, options_processes, parVars, orthVars, davVars>>

notOpt == <<lqoVars, parVars, orthVars, davVars>>

notPar == <<lqoVars, optVars, options_processes, orthVars, davVars>>

notOrth == <<lqoVars, optVars, options_processes, parVars, davVars>>

notDav == <<lqoVars, optVars, options_processes, parVars, orthVars>>

-----------------------------------------------------------------------------
(* Bounds of the model. *)

\* The most terms a weighted term collection holds.
MaxTerms == 2

\* The register sizes (numbers of sites) the operators are built on.
QubitCounts == 0..2

\* The largest worker count requested of LinearQubitOperatorOptions, and the
\* most cores of the machine.
MaxProcesses == 4

MaxCores == 3

\* The largest worker count of the options a parallel operator is built with.
MaxPool == 2

\* The register sizes of the parallel operators.
ParQubitCounts == 0..1

\* The most columns of an array handed to orthonormalize on its own.
MaxColumns == 3

\* The largest n_lowest and the largest max_iterations asked of get_lowest_n.
MaxNLowest == 3

MaxIterations == 2

-----------------------------------------------------------------------------
(* Complex (Gaussian integer) arithmetic. *)

CZero == <<0, 0>>

COne == <<1, 0>>

CI == <<0, 1>>

CAdd(a, b) == <<a[1] + b[1], a[2] + b[2]>>

CNeg(a) == <<-a[1], -a[2]>>

CSub(a, b) == <<a[1] - b[1], a[2] - b[2]>>

CMul(a, b) == <<a[1] * b[1] - a[2] * b[2], a[1] * b[2] + a[2] * b[1]>>

CConj(a) == <<a[1], -a[2]>>

CAbsSq(a) == a[1] * a[1] + a[2] * a[2]

Pow2(n) == 2 ^ n

VZero(n) == [k \in 1..n |-> CZero]

VAdd(u, v) == [k \in 1..Len(u) |-> CAdd(u[k], v[k])]

VSub(u, v) == [k \in 1..Len(u) |-> CSub(u[k], v[k])]

VNeg(v) == [k \in 1..Len(v) |-> CNeg(v[k])]

VScale(c, v) == [k \in 1..Len(v) |-> CMul(c, v[k])]

RECURSIVE Concatenate(_)
Concatenate(vs) ==
    IF vs = <<>> THEN <<>> ELSE Head(vs) \o Concatenate(Tail(vs))

-----------------------------------------------------------------------------
(* Operator terms.  A term is a sequence of <<site, label>> pairs in       *)
(* increasing site order (sites count from 0); a weighted term collection  *)
(* is a sequence of records [term, coefficient] with distinct terms.       *)

Labels == <<"I", "X", "Y", "Z">>

\* The term whose label at site s is the s-th base-4 digit of code.
RECURSIVE TermOfCode(_, _, _)
TermOfCode(code, s, q) ==
    IF s >= q THEN <<>>
    ELSE LET digit == (code \div (4 ^ s)) % 4
         IN  (IF digit = 0 THEN <<>> ELSE << <<s, Labels[digit + 1]>> >>)
             \o TermOfCode(code, s + 1, q)

Coefficients == {<<1, 0>>, <<-2, 1>>}

\* All weighted term collections over sites < q with at most MaxTerms terms,
\* each listed once (in increasing order of the terms' codes).
TermCollections(q) ==
    LET codes == 0..(4 ^ q - 1)
    IN  UNION {
          {[k \in 1..n |->
               [term |-> TermOfCode(order[k], 0, q), coefficient |-> cf[k]]]
           : order \in {o \in [1..n -> codes] : \A i \in 1..n : \A j \in 1..n :
                                                    i < j => o[i] < o[j]},
             cf \in [1..n -> Coefficients]}
          : n \in 0..MaxTerms}

\* openfermion.utils.count_qubits: one more than the highest site referenced.
RECURSIVE MaxSite(_)
MaxSite(term) ==
    IF term = <<>> THEN -1
    ELSE LET rest == MaxSite(Tail(term))
         IN  IF Head(term)[1] > rest THEN Head(term)[1] ELSE rest

RECURSIVE count_qubits(_)
count_qubits(op) ==
    IF op = <<>> THEN 0
    ELSE LET here == MaxSite(Head(op).term) + 1
             rest == count_qubits(Tail(op))
         IN  IF here > rest THEN here ELSE rest

-----------------------------------------------------------------------------
(* LinearQubitOperator._matvec *)

\* numpy.split(v, n): n consecutive blocks of equal length.
Split(v, n) ==
    LET size == Len(v) \div n
    IN  [k \in 1..n |-> SubSeq(v, (k - 1) * size + 1, k * size)]

RECURSIVE SplitAll(_, _)
SplitAll(vecs, n) ==
    IF vecs = <<>> THEN <<>> ELSE Split(Head(vecs), n) \o SplitAll(Tail(vecs), n)

\* The xyz table with the two factors of Y exchanged.
xyz_SwappedY(label, vp) ==
    CASE label = "X" -> <<vp[2], vp[1]>>
      [] label = "Y" -> <<VScale(CI, vp[2]), VScale(CNeg(CI), vp[1])>>
      [] label = "Z" -> <<vp[1], VNeg(vp[2])>>

\* The xyz table: the action of one label on a pair of half blocks.
xyz(label, vp) ==
    CASE label = "X" -> <<vp[2], vp[1]>>
      [] label = "Y" -> <<VScale(CNeg(CI), vp[2]), VScale(CI, vp[1])>>
      [] label = "Z" -> <<vp[1], VNeg(vp[2])>>

RECURSIVE TransformPairs(_, _)
TransformPairs(label, vecs) ==
    IF vecs = <<>> THEN <<>>
    ELSE xyz(label, Split(Head(vecs), 2)) \o TransformPairs(label, Tail(vecs))

\* One pass of the loop over the pauli operators of a term.
ApplyPauli(st, pauli_operator) ==
    LET split == IF pauli_operator[1] > st.tensor_factor
                 THEN SplitAll(st.vecs, Pow2(pauli_operator[1] - st.tensor_factor))
                 ELSE st.vecs
    IN  [vecs |-> TransformPairs(pauli_operator[2], split),
         tensor_factor |-> pauli_operator[1] + 1]

RECURSIVE ApplyPaulis(_, _)
ApplyPaulis(st, term) ==
    IF term = <<>> THEN st
    ELSE ApplyPaulis(ApplyPauli(st, Head(term)), Tail(term))

\* The body of the loop over the terms: the term's contribution to retvec.
TermContribution(entry, xv) ==
    VScale(entry.coefficient,
           Concatenate(ApplyPaulis([vecs |-> <<xv>>, tensor_factor |-> 0],
                                   entry.term).vecs))

Accumulate(acc, entry, xv) == VAdd(acc, TermContribution(entry, xv))

RECURSIVE MatvecFrom(_, _, _)
MatvecFrom(acc, op, xv) ==
    IF op = <<>> THEN acc
    ELSE MatvecFrom(Accumulate(acc, Head(op), xv), Tail(op), xv)

\* The whole of _matvec on a vector of the right length.
Matvec(op, xv) == MatvecFrom(VZero(Len(xv)), op, xv)

-----------------------------------------------------------------------------
(* Input vectors offered to _matvec. *)

DenseVector(n) == [k \in 1..n |-> <<k, 2 - k * k>>]

BasisVector(n, j, c) == [k \in 1..n |-> IF k = j THEN c ELSE CZero]

\* A vector of the right length with all entries different, the last basis
\* vector times i, and a vector one entry too long.
InputVectors(q) ==
    {DenseVector(Pow2(q)), BasisVector(Pow2(q), Pow2(q), CI), DenseVector(Pow2(q) + 1)}

NoVector == <<>>

-----------------------------------------------------------------------------
(* The serial operator: construction and the _matvec loop. *)

LqoIdle ==
    /\ qubit_operator = <<>>
    /\ n_qubits_arg = -1
    /\ n_qubits = -1
    /\ x = NoVector
    /\ retvec = NoVector
    /\ term_index = 0
    /\ lqo_pc = "idle"

LqoStart ==
    /\ \E q \in QubitCounts :
          /\ qubit_operator \in TermCollections(q)
          /\ n_qubits_arg \in {-1, q}
    /\ n_qubits = -1
    /\ x = NoVector
    /\ retvec = NoVector
    /\ term_index = 0
    /\ lqo_pc = "new"

\* LinearQubitOperator.__init__ (n_qubits_arg = -1 stands for None).
LqoInit ==
    /\ lqo_pc = "new"
    /\ LET calculated_n_qubits == count_qubits(qubit_operator)
       IN  IF n_qubits_arg = -1
           THEN /\ n_qubits' = calculated_n_qubits
                /\ lqo_pc' = "constructed"
           ELSE IF n_qubits_arg < calculated_n_qubits
           THEN /\ n_qubits' = n_qubits
                /\ lqo_pc' = "ctor_error"
           ELSE /\ n_qubits' = n_qubits_arg
                /\ lqo_pc' = "constructed"
    /\ UNCHANGED <<qubit_operator, n_qubits_arg, x, retvec, term_index>>
    /\ UNCHANGED notLqo

\* _matvec: the length check and the allocation of retvec.
MatvecCall ==
    /\ lqo_pc = "constructed"
    /\ \E xv \in InputVectors(n_qubits) :
          /\ x' = xv
          /\ IF Len(xv) # Pow2(n_qubits)
             THEN /\ lqo_pc' = "error"
                  /\ UNCHANGED <<retvec, term_index>>
             ELSE /\ lqo_pc' = "running"
                  /\ retvec' = VZero(Len(xv))
                  /\ term_index' = 1
    /\ UNCHANGED <<qubit_operator, n_qubits_arg, n_qubits>>
    /\ UNCHANGED notLqo

\* One pass of the loop over the terms.
MatvecTerm ==
    /\ lqo_pc = "running"
    /\ term_index <= Len(qubit_operator)
    /\ retvec' = Accumulate(retvec, qubit_operator[term_index], x)
    /\ term_index' = term_index + 1
    /\ UNCHANGED <<qubit_operator, n_qubits_arg, n_qubits, x, lqo_pc>>
    /\ UNCHANGED notLqo

MatvecReturn ==
    /\ lqo_pc = "running"
    /\ term_index > Len(qubit_operator)
    /\ lqo_pc' = "returned"
    /\ UNCHANGED <<qubit_operator, n_qubits_arg, n_qubits, x, retvec, term_index>>
    /\ UNCHANGED notLqo

LqoNext == LqoInit \/ MatvecCall \/ MatvecTerm \/ MatvecReturn

-----------------------------------------------------------------------------
(* The dense matrix of the operator: the sum over the terms of coefficient *)
(* times the tensor product over the sites 0..q-1, site 0 the leftmost.    *)

Pauli(label, r, c) ==
    CASE label = "I" -> IF r = c THEN COne ELSE CZero
      [] label = "X" -> IF r = c THEN CZero ELSE COne
      [] label = "Y" -> IF r = c THEN CZero ELSE IF r = 0 THEN CNeg(CI) ELSE CI
      [] label = "Z" -> IF r # c THEN CZero ELSE IF r = 0 THEN COne ELSE CNeg(COne)

LabelAt(term, s) ==
    IF \E k \in 1..Len(term) : term[k][1] = s
    THEN term[CHOOSE k \in 1..Len(term) : term[k][1] = s][2]
    ELSE "I"

Bit(r, s, q) == (r \div Pow2(q - 1 - s)) % 2

\* Entry (r, c) of the tensor product of the 2x2 matrices of labels[1..q].
RECURSIVE TensorEntry(_, _, _, _, _)
TensorEntry(labels, q, r, c, s) ==
    IF s >= q THEN COne
    ELSE LET here == Pauli(labels[s + 1], Bit(r, s, q), Bit(c, s, q))
         IN  IF here = CZero THEN CZero
             ELSE CMul(here, TensorEntry(labels, q, r, c, s + 1))

SiteLabels(term, q) == [s \in 1..q |-> LabelAt(term, s - 1)]

RowDot(labels, q, r, xv) ==
    LET RECURSIVE Sum(_)
        Sum(c) == IF c >= Len(xv) THEN CZero
                  ELSE CAdd(CMul(TensorEntry(labels, q, r, c, 0), xv[c + 1]), Sum(c + 1))
    IN  Sum(0)

\* (tensor product of the term's site matrices) * xv
TensorTimes(term, q, xv) ==
    LET labels == SiteLabels(term, q)
    IN  [k \in 1..Len(xv) |-> RowDot(labels, q, k - 1, xv)]

\* D * xv for the dense matrix D of the collection op on q sites.
RECURSIVE DenseTimes(_, _, _)
DenseTimes(op, q, xv) ==
    IF op = <<>> THEN VZero(Len(xv))
    ELSE VAdd(VScale(Head(op).coefficient, TensorTimes(Head(op).term, q, xv)),
              DenseTimes(Tail(op), q, xv))

Prefix(op, n) == SubSeq(op, 1, n)

\* C1: at every point of the loop over the terms retvec is the dense matrix
\* of the terms processed so far times x, so the vector _matvec returns is
\* D * x for the dense matrix D of the whole collection.
C1_MatvecIsDense ==
    /\ lqo_pc = "running" =>
          retvec = DenseTimes(Prefix(qubit_operator, term_index - 1), n_qubits, x)
    /\ lqo_pc = "returned" => retvec = DenseTimes(qubit_operator, n_qubits, x)

\* A call returned for two sites, a term naming only site 1 (site 0 skipped)
\* and a second term, on a vector with four different entries.
C1_Witness ==
    /\ lqo_pc = "returned"
    /\ n_qubits = 2
    /\ Len(qubit_operator) = 2
    /\ \E k \in 1..2 : /\ Len(qubit_operator[k].term) = 1
                       /\ qubit_operator[k].term[1] = <<1, "Y">>
    /\ x = DenseVector(4)

-----------------------------------------------------------------------------
(* LinearQubitOperatorOptions *)

Min(a, b) == IF a < b THEN a ELSE b

Max(a, b) == IF a > b THEN a ELSE b

\* The requested count kept as it is, with no clamp to the cores.
OptionsProcesses_NoClamp(processes, cores) == processes

\* self.processes = min(processes, multiprocessing.cpu_count())
OptionsProcesses(processes, cores) == Min(processes, cores)

\* get_processes(num): the number of real processes to use.
get_processes(processes, num) == Max(Min(num, processes), 1)

OptIdle ==
    /\ processes_arg = 0
    /\ cpu_count = 0
    /\ get_num = 0
    /\ get_result = 0
    /\ opt_pc = "idle"

OptionsUnset == options_processes = 0

OptStart ==
    /\ processes_arg \in (0 - MaxProcesses)..MaxProcesses
    /\ cpu_count \in 1..MaxCores
    /\ options_processes = 0
    /\ get_num = 0
    /\ get_result = 0
    /\ opt_pc = "new"

\* LinearQubitOperatorOptions.__init__
OptionsInit ==
    /\ opt_pc = "new"
    /\ IF processes_arg <= 0
       THEN /\ opt_pc' = "options_error"
            /\ UNCHANGED options_processes
       ELSE /\ opt_pc' = "constructed"
            /\ options_processes' = OptionsProcesses(processes_arg, cpu_count)
    /\ UNCHANGED <<processes_arg, cpu_count, get_num, get_result>>
    /\ UNCHANGED notOpt

\* A call of get_processes on the constructed options.
GetProcesses ==
    /\ opt_pc = "constructed"
    /\ \E num \in 0..MaxProcesses :
          /\ get_num' = num
          /\ get_result' = get_processes(options_processes, num)
    /\ UNCHANGED <<processes_arg, cpu_count, options_processes, opt_pc>>
    /\ UNCHANGED notOpt

OptNext == OptionsInit \/ GetProcesses

\* C8 as stated: a request that is non-positive or exceeds the number of
\* available cores makes the construction fail.
C8_Original ==
    (opt_pc # "new" /\ (processes_arg <= 0 \/ processes_arg > cpu_count))
        => opt_pc = "options_error"

\* C8 amended: the construction fails exactly for a non-positive request; a
\* request above the number of cores constructs the options, with the worker
\* count clamped to the number of cores.
C8_ClampNotFail ==
    opt_pc # "new" =>
        /\ (processes_arg <= 0) <=> (opt_pc = "options_error")
        /\ processes_arg <= 0 => options_processes = 0
        /\ (processes_arg > 0 /\ processes_arg > cpu_count) =>
              /\ opt_pc = "constructed"
              /\ options_processes = cpu_count
        /\ (processes_arg > 0 /\ processes_arg <= cpu_count) =>
              options_processes = processes_arg

\* Options constructed from a request above the number of cores.
C8_Witness ==
    /\ opt_pc = "constructed"
    /\ processes_arg > cpu_count
    /\ options_processes = cpu_count

-----------------------------------------------------------------------------
(* ParallelLinearQubitOperator *)

\* The terms of op assigned to group g, in the order of op.
GroupOf(op, assign, g) ==
    LET RECURSIVE Pick(_)
        Pick(k) == IF k > Len(op) THEN <<>>
                   ELSE (IF assign[k] = g THEN <<op[k]>> ELSE <<>>) \o Pick(k + 1)
    IN  Pick(1)

\* QubitOperator.get_operator_groups(p): at most p collections whose union
\* is op.  Every assignment of the terms to groups is a possible answer.
OperatorGroups(op, p) ==
    UNION {{[g \in 1..ng |-> GroupOf(op, assign, g)] :
               assign \in [1..Len(op) -> 1..ng]} : ng \in 0..p}

\* functools.reduce(numpy.add, vecs) on a non-empty list.
RECURSIVE ReduceFrom(_, _)
ReduceFrom(acc, vecs) ==
    IF vecs = <<>> THEN acc ELSE ReduceFrom(VAdd(acc, Head(vecs)), Tail(vecs))

\* A reduction that loses every partial result but the first.
ReduceAdd_FirstOnly(vecs) == Head(vecs)

ReduceAdd(vecs) == ReduceFrom(Head(vecs), Tail(vecs))

\* The tail of _matvec: the zero vector for no partial result, else their sum.
Combine(vecs, xv) == IF vecs = <<>> THEN VZero(Len(xv)) ELSE ReduceAdd(vecs)

\* A map that hands back whatever results there are once every job has ended.
MapSucceeded_AllEnded(jobs) == \A g \in DOMAIN jobs : jobs[g] \in {"done", "raised"}

\* pool.map hands back the list of results only if every job succeeded.
MapSucceeded(jobs) == \A g \in DOMAIN jobs : jobs[g] = "done"

MapFailed(jobs) == \E g \in DOMAIN jobs : jobs[g] = "raised"

\* The results of the jobs that have one, in the order of the jobs.
ResultList(jobs, results) ==
    LET RECURSIVE Pick(_)
        Pick(g) == IF g > Len(jobs) THEN <<>>
                   ELSE (IF jobs[g] = "done" THEN <<results[g]>> ELSE <<>>) \o Pick(g + 1)
    IN  Pick(1)

Running(jobs) == {g \in DOMAIN jobs : jobs[g] = "running"}

ParIdle ==
    /\ par_operator = <<>>
    /\ par_n_qubits_arg = -1
    /\ par_n_qubits = -1
    /\ qubit_operator_groups = <<>>
    /\ par_x = NoVector
    /\ pool_processes = 0
    /\ job = <<>>
    /\ job_result = <<>>
    /\ finish_order = <<>>
    /\ par_retvec = NoVector
    /\ par_pc = "idle"

ParStart ==
    /\ options_processes \in 1..MaxPool
    /\ \E q \in ParQubitCounts :
          /\ par_operator \in TermCollections(q)
          /\ par_n_qubits_arg \in {-1, q}
    /\ par_n_qubits = -1
    /\ qubit_operator_groups = <<>>
    /\ par_x = NoVector
    /\ pool_processes = 0
    /\ job = <<>>
    /\ job_result = <<>>
    /\ finish_order = <<>>
    /\ par_retvec = NoVector
    /\ par_pc = "new"

\* ParallelLinearQubitOperator.__init__ (par_n_qubits_arg = -1 stands for
\* None; "n_qubits or count_qubits(...)" also replaces a 0).
ParInit ==
    /\ par_pc = "new"
    /\ LET n == IF par_n_qubits_arg <= 0 THEN count_qubits(par_operator)
                ELSE par_n_qubits_arg
       IN  /\ par_n_qubits' = n
           /\ \E groups \in OperatorGroups(par_operator, options_processes) :
                 /\ qubit_operator_groups' = groups
                 /\ par_pc' = IF \E g \in DOMAIN groups : n < count_qubits(groups[g])
                              THEN "ctor_error" ELSE "constructed"
    /\ UNCHANGED <<par_operator, par_n_qubits_arg, par_x, pool_processes, job,
                   job_result, finish_order, par_retvec>>
    /\ UNCHANGED notPar

\* _matvec: the pool is created and every (operator, x) job is handed to it.
ParMatvecCall ==
    /\ par_pc = "constructed"
    /\ \E xv \in InputVectors(par_n_qubits) : par_x' = xv
    /\ pool_processes' = get_processes(options_processes, Len(qubit_operator_groups))
    /\ job' = [g \in 1..Len(qubit_operator_groups) |-> "queued"]
    /\ job_result' = [g \in 1..Len(qubit_operator_groups) |-> NoVector]
    /\ par_pc' = "mapping"
    /\ UNCHANGED <<par_operator, par_n_qubits_arg, par_n_qubits, qubit_operator_groups,
                   finish_order, par_retvec>>
    /\ UNCHANGED notPar

\* A free worker of the pool takes a queued job.
WorkerStart(g) ==
    /\ par_pc = "mapping"
    /\ job[g] = "queued"
    /\ Cardinality(Running(job)) < pool_processes
    /\ job' = [job EXCEPT ![g] = "running"]
    /\ UNCHANGED <<par_operator, par_n_qubits_arg, par_n_qubits, qubit_operator_groups,
                   par_x, pool_processes, job_result, finish_order, par_retvec, par_pc>>
    /\ UNCHANGED notPar

\* _apply_operator in a worker: operator * vec, which raises on a vector of
\* the wrong length.
WorkerApply(g) ==
    /\ par_pc = "mapping"
    /\ job[g] = "running"
    /\ IF Len(par_x) # Pow2(par_n_qubits)
       THEN /\ job' = [job EXCEPT ![g] = "raised"]
            /\ UNCHANGED job_result
       ELSE /\ job' = [job EXCEPT ![g] = "done"]
            /\ job_result' = [job_result EXCEPT ![g] = Matvec(qubit_operator_groups[g], par_x)]
    /\ finish_order' = Append(finish_order, g)
    /\ UNCHANGED <<par_operator, par_n_qubits_arg, par_n_qubits, qubit_operator_groups,
                   par_x, pool_processes, par_retvec, par_pc>>
    /\ UNCHANGED notPar

\* _apply_operator in a worker raises for a reason of the worker's own (out
\* of memory, say).
WorkerRaise(g) ==
    /\ par_pc = "mapping"
    /\ job[g] = "running"
    /\ job' = [job EXCEPT ![g] = "raised"]
    /\ finish_order' = Append(finish_order, g)
    /\ UNCHANGED <<par_operator, par_n_qubits_arg, par_n_qubits, qubit_operator_groups,
                   par_x, pool_processes, job_result, par_retvec, par_pc>>
    /\ UNCHANGED notPar

\* pool.map returns the results and _matvec returns their sum.
ParMatvecReturn ==
    /\ par_pc = "mapping"
    /\ MapSucceeded(job)
    /\ par_retvec' = Combine(ResultList(job, job_result), par_x)
    /\ par_pc' = "returned"
    /\ UNCHANGED <<par_operator, par_n_qubits_arg, par_n_qubits, qubit_operator_groups,
                   par_x, pool_processes, job, job_result, finish_order>>
    /\ UNCHANGED notPar

\* pool.map raises the error of a job that raised: _matvec fails with it.
ParMatvecRaise ==
    /\ par_pc = "mapping"
    /\ MapFailed(job)
    /\ par_pc' = "failed"
    /\ UNCHANGED <<par_operator, par_n_qubits_arg, par_n_qubits, qubit_operator_groups,
                   par_x, pool_processes, job, job_result, finish_order, par_retvec>>
    /\ UNCHANGED notPar

ParNext ==
    \/ ParInit
    \/ ParMatvecCall
    \/ \E g \in DOMAIN job : WorkerStart(g)
    \/ \E g \in DOMAIN job : WorkerApply(g)
    \/ \E g \in DOMAIN job : WorkerRaise(g)
    \/ ParMatvecReturn
    \/ ParMatvecRaise

\* C2: the vector the parallel _matvec returns is the vector the serial
\* _matvec returns on the whole collection, whatever the partition into
\* groups and the order in which the workers finished; with no group it is
\* the zero vector of the length of x.
C2_ParallelIsSerial ==
    par_pc = "returned" =>
        /\ Len(par_x) = Pow2(par_n_qubits) => par_retvec = Matvec(par_operator, par_x)
        /\ qubit_operator_groups = <<>> => par_retvec = VZero(Len(par_x))

\* Two non-empty groups, the second finished first, and a returned sum.
C2_Witness ==
    /\ par_pc = "returned"
    /\ Len(qubit_operator_groups) = 2
    /\ qubit_operator_groups[1] # <<>>
    /\ qubit_operator_groups[2] # <<>>
    /\ finish_order = <<2, 1>>
    /\ par_retvec # VZero(Len(par_x))

\* C7: once a job has raised, the call never returns a vector: it is still
\* waiting for the pool or has failed, and a failed call holds no result.
C7_WorkerFailureFailsCall ==
    /\ MapFailed(job) => (par_pc \in {"mapping", "failed"} /\ par_retvec = NoVector)
    /\ par_pc = "failed" => (MapFailed(job) /\ par_retvec = NoVector)

\* The call failed although another group's partial result was there.
C7_Witness ==
    /\ par_pc = "failed"
    /\ \E g \in DOMAIN job : job[g] = "done" /\ job_result[g] # NoVector
    /\ \E g \in DOMAIN job : job[g] = "raised"

-----------------------------------------------------------------------------
(* Exact numbers of the Davidson solver.                                   *)
(* A rational is <<n, d>> in lowest terms with d > 0.  A column vector is  *)
(* a record [v, d]: the Gaussian integer vector v divided by the square    *)
(* root of the positive rational d.  Its normal form has the integers of v *)
(* coprime, so a vector has one representation and = compares values.      *)

Abs(n) == IF n < 0 THEN 0 - n ELSE n

RECURSIVE GCD(_, _)
GCD(a, b) == IF b = 0 THEN a ELSE GCD(b, a % b)

QNorm(n, d) ==
    LET g == GCD(Abs(n), Abs(d))
        sgn == IF d < 0 THEN -1 ELSE 1
    IN  <<(sgn * n) \div g, (sgn * d) \div g>>

QZero == <<0, 1>>

QOne == <<1, 1>>

QInt(n) == <<n, 1>>

QAdd(a, b) ==
    LET g == GCD(a[2], b[2])
    IN  QNorm(a[1] * (b[2] \div g) + b[1] * (a[2] \div g), a[2] * (b[2] \div g))

QNeg(a) == <<0 - a[1], a[2]>>

QSub(a, b) == QAdd(a, QNeg(b))

QMul(a, b) ==
    LET g == GCD(Abs(a[1]), b[2])
        h == GCD(Abs(b[1]), a[2])
    IN  <<(a[1] \div g) * (b[1] \div h), (a[2] \div h) * (b[2] \div g)>>

\* 1 / a for a # 0
QInv(a) == IF a[1] < 0 THEN <<0 - a[2], 0 - a[1]>> ELSE <<a[2], a[1]>>

\* a / b for b # 0
QDiv(a, b) == QMul(a, QInv(b))

QLess(a, b) ==
    LET g == GCD(a[2], b[2])
    IN  a[1] * (b[2] \div g) < b[1] * (a[2] \div g)

QAbs(a) == <<Abs(a[1]), a[2]>>

QMax(a, b) == IF QLess(a, b) THEN b ELSE a

\* numpy.dot(a.conj(), b) of two Gaussian integer vectors
Dot(a, b) ==
    LET RECURSIVE Sum(_)
        Sum(j) == IF j > Len(a) THEN CZero
                  ELSE CAdd(CMul(CConj(a[j]), b[j]), Sum(j + 1))
    IN  Sum(1)

\* The greatest common divisor of all the integers of a vector (0 for zero).
VecGCD(w) ==
    LET RECURSIVE G(_)
        G(j) == IF j > Len(w) THEN 0
                ELSE GCD(Abs(w[j][1]), GCD(Abs(w[j][2]), G(j + 1)))
    IN  G(1)

ZeroColumn(n) == [v |-> VZero(n), d |-> QOne]

\* The column w / (n * sqrt(d)) in normal form, for an integer n > 0.
CanonOver(w, d, n) ==
    LET g == VecGCD(w)
    IN  IF g = 0 THEN ZeroColumn(Len(w))
        ELSE [v |-> [j \in 1..Len(w) |-> <<w[j][1] \div g, w[j][2] \div g>>],
              d |-> QMul(QMul(d, QNorm(n, g)), QNorm(n, g))]

\* The column w / sqrt(d) in normal form.
Canon(w, d) == CanonOver(w, d, 1)

\* The column w / sqrt(<w, w>): w normalized.
Unit(w) == Canon(w, QInt(Dot(w, w)[1]))

\* numpy.max(numpy.abs(x)) < eps
MaxAbsBelow(col, tol) ==
    \A j \in 1..Len(col.v) :
        QLess(QDiv(QInt(CAbsSq(col.v[j])), col.d), QMul(tol, tol))

\* x - a * numpy.dot(a.conj(), x)
SubtractAlong(xc, a) ==
    LET n == a.d[1]
        m == a.d[2]
        w == VSub(VScale(<<n, 0>>, xc.v), VScale(CMul(<<m, 0>>, Dot(a.v, xc.v)), a.v))
    IN  CanonOver(w, xc.d, n)

\* vector_i / numpy.linalg.norm(vector_i)
Normalized(col) == Unit(col.v)

-----------------------------------------------------------------------------
(* Davidson.orthonormalize *)

\* The inner loop: for j in range(i), on the array as it stands.
RECURSIVE SubtractColumns(_, _, _, _)
SubtractColumns(vector_i, array, j, i) ==
    IF j >= i THEN vector_i
    ELSE SubtractColumns(SubtractAlong(vector_i, array[j]), array, j + 1, i)

\* The outer loop from column i on.  The array is updated in place: column i
\* keeps what is left of it, and a kept column is written, normalized, to
\* column count + 1.  (Columns are numbered from 1 here.)
RECURSIVE OrthonormalizeFrom(_, _, _, _)
OrthonormalizeFrom(array, count, i, tol) ==
    IF i > Len(array) THEN [array |-> array, count |-> count]
    ELSE LET vector_i == SubtractColumns(array[i], array, 1, i)
             left == [array EXCEPT ![i] = vector_i]
         IN  IF MaxAbsBelow(vector_i, tol)
             THEN OrthonormalizeFrom(left, count, i + 1, tol)
             ELSE OrthonormalizeFrom([left EXCEPT ![count + 1] = Normalized(vector_i)],
                                     count + 1, i + 1, tol)

\* orthonormalize(vectors, num_orthonormals) on a non-empty array: the array
\* after the call and the number of leading columns the call returns.
orthonormalize(array, k, tol) == OrthonormalizeFrom(array, k, k + 1, tol)

Returned(r) == SubSeq(r.array, 1, r.count)

\* The tolerances the solver is built with.
Tolerances == {<<1, 2>>, <<1, 10>>}

\* Columns with three rows: unit vectors, and one short vector (1, 1, 0) / 3.
\* Lengths of the arrays that may hold the short vector.
ShortArrayLengths == 0..3

ShortColumn == Canon(<< <<1, 0>>, <<1, 0>>, <<0, 0>> >>, QInt(9))

OrthColumns ==
    {Unit(<< <<1, 0>>, <<0, 0>>, <<0, 0>> >>),
     Unit(<< <<0, 0>>, <<1, 0>>, <<0, 0>> >>),
     Unit(<< <<2, 0>>, <<1, 0>>, <<0, 0>> >>),
     Unit(<< <<0, 0>>, <<1, 0>>, <<1, 0>> >>),
     Unit(<< <<1, 0>>, <<0, 0>>, <<0, 1>> >>),
     ShortColumn}

\* <a, b> of two columns is 0, or 1 for a = b: the columns are orthonormal.
IsOrthonormal(cols) ==
    \A i \in 1..Len(cols) : \A j \in 1..Len(cols) :
        /\ i # j => Dot(cols[i].v, cols[j].v) = CZero
        /\ cols[i].d = QInt(Dot(cols[i].v, cols[i].v)[1])

OrthIdle ==
    /\ orth_eps = QOne
    /\ vectors = <<>>
    /\ num_orthonormals = 0
    /\ ortho_normals = <<>>
    /\ count_orthonormals = 0
    /\ orth_pc = "idle"

\* A call orthonormalize(vectors, num_orthonormals) whose first
\* num_orthonormals columns are orthonormal, as the method assumes.  Arrays
\* that hold the short vector have a length in ShortArrayLengths, which
\* keeps the exact numerators and denominators within 32 bits.
OrthStart ==
    /\ orth_eps \in Tolerances
    /\ \E n \in 0..MaxColumns : vectors \in [1..n -> OrthColumns]
    /\ (\E i \in 1..Len(vectors) : vectors[i] = ShortColumn)
           => Len(vectors) \in ShortArrayLengths
    /\ num_orthonormals \in 0..Len(vectors)
    /\ IsOrthonormal(SubSeq(vectors, 1, num_orthonormals))
    /\ ortho_normals = <<>>
    /\ count_orthonormals = 0
    /\ orth_pc = "called"

\* The whole call: ValueError for an array with no column, else the loops.
OrthonormalizeCall ==
    /\ orth_pc = "called"
    /\ IF Len(vectors) = 0
       THEN /\ orth_pc' = "error"
            /\ UNCHANGED <<ortho_normals, count_orthonormals>>
       ELSE LET r == orthonormalize(vectors, num_orthonormals, orth_eps)
            IN  /\ ortho_normals' = r.array
                /\ count_orthonormals' = r.count
                /\ orth_pc' = "returned"
    /\ UNCHANGED <<orth_eps, vectors, num_orthonormals>>
    /\ UNCHANGED notOrth

OrthNext == OrthonormalizeCall

\* The reference modified Gram-Schmidt: column i is projected on the
\* finalized columns only, dropped if what is left is below eps, else
\* normalized and appended.
RECURSIVE ReferenceFrom(_, _, _, _)
ReferenceFrom(finalized, cols, i, tol) ==
    IF i > Len(cols) THEN finalized
    ELSE LET left == SubtractColumns(cols[i], finalized, 1, Len(finalized) + 1)
         IN  IF MaxAbsBelow(left, tol)
             THEN ReferenceFrom(finalized, cols, i + 1, tol)
             ELSE ReferenceFrom(Append(finalized, Normalized(left)), cols, i + 1, tol)

ReferenceMGS(cols, k, tol) == ReferenceFrom(SubSeq(cols, 1, k), cols, k + 1, tol)

\* C9: the columns orthonormalize returns are the columns of the reference
\* modified Gram-Schmidt on the same arguments.
C9_IsReferenceMGS ==
    orth_pc = "returned" =>
        SubSeq(ortho_normals, 1, count_orthonormals)
            = ReferenceMGS(vectors, num_orthonormals, orth_eps)

-----------------------------------------------------------------------------
(* Complex rationals <<re, im>>, and vectors of them, for the Ritz step. *)

ZZero == <<QZero, QZero>>

ZOne == <<QOne, QZero>>

ZOfC(c) == <<QInt(c[1]), QInt(c[2])>>

ZOfQ(q) == <<q, QZero>>

ZAdd(a, b) == <<QAdd(a[1], b[1]), QAdd(a[2], b[2])>>

ZNeg(a) == <<QNeg(a[1]), QNeg(a[2])>>

ZSub(a, b) == ZAdd(a, ZNeg(b))

ZMul(a, b) ==
    <<QSub(QMul(a[1], b[1]), QMul(a[2], b[2])), QAdd(QMul(a[1], b[2]), QMul(a[2], b[1]))>>

ZConj(a) == <<a[1], QNeg(a[2])>>

ZAbsSq(a) == QAdd(QMul(a[1], a[1]), QMul(a[2], a[2]))

ZScale(q, a) == <<QMul(q, a[1]), QMul(q, a[2])>>

\* a / b for b # 0
ZDiv(a, b) == ZScale(QDiv(QOne, ZAbsSq(b)), ZMul(a, ZConj(b)))

RVec(v) == [j \in 1..Len(v) |-> ZOfC(v[j])]

RZero(n) == [j \in 1..n |-> ZZero]

RAdd(a, b) == [j \in 1..Len(a) |-> ZAdd(a[j], b[j])]

RSub(a, b) == [j \in 1..Len(a) |-> ZSub(a[j], b[j])]

RNeg(a) == [j \in 1..Len(a) |-> ZNeg(a[j])]

RScale(z, a) == [j \in 1..Len(a) |-> ZMul(z, a[j])]

\* The elementwise product of a real vector and a complex one.
RTimes(qs, a) == [j \in 1..Len(a) |-> ZScale(qs[j], a[j])]

\* numpy.dot(a.conj(), b)
RDot(a, b) ==
    LET RECURSIVE Sum(_)
        Sum(j) == IF j > Len(a) THEN ZZero
                  ELSE ZAdd(ZMul(ZConj(a[j]), b[j]), Sum(j + 1))
    IN  Sum(1)

LCM(a, b) == (a * b) \div GCD(a, b)

\* A common denominator of all the entries of a rational vector.
Denominator(r) ==
    LET RECURSIVE L(_)
        L(j) == IF j > Len(r) THEN 1
                ELSE LCM(r[j][1][2], LCM(r[j][2][2], L(j + 1)))
    IN  L(1)

\* The column r / sqrt(D) of a rational vector r and a positive rational D.
ColumnOf(r, D) ==
    LET l == Denominator(r)
        w == [j \in 1..Len(r) |-> <<(r[j][1][1] * l) \div r[j][1][2],
                                    (r[j][2][1] * l) \div r[j][2][2]>>]
    IN  CanonOver(w, D, l)

\* numpy.linalg.norm(col) squared
NormSq(col) == QDiv(QInt(Dot(col.v, col.v)[1]), col.d)

RECURSIVE RootFrom(_, _)
RootFrom(n, r) == IF r * r >= n THEN r ELSE RootFrom(n, r + 1)

IsSquare(n) == n >= 0 /\ RootFrom(n, 0) * RootFrom(n, 0) = n

QIsSquare(q) == IsSquare(q[1]) /\ IsSquare(q[2])

QSqrt(q) == <<RootFrom(q[1], 0), RootFrom(q[2], 0)>>

-----------------------------------------------------------------------------
(* Davidson._iterate and Davidson._get_new_directions.                     *)
(* The basis guess_v is a sequence of columns; the cache guess_mv holds    *)
(* the image of column i as [v |-> operator * guess_v[i].v, d |->          *)
(* guess_v[i].d], the same vector over the same square root.               *)

\* self.linear_operator * column
ApplyOperator(op, col) == [v |-> Matvec(op, col.v), d |-> col.d]

\* get_linear_qubit_operator_diagonal: the diagonal of the operator's matrix.
Diagonal(op) ==
    LET n == Pow2(count_qubits(op))
    IN  [j \in 1..n |-> QInt(Matvec(op, BasisVector(n, j, COne))[j][1])]

\* A cache that is never consulted: every column is applied again.
FirstMissing_One(V, MV) == 1

\* The first column of guess_v whose image is not in the cache.
FirstMissing(V, MV) == Len(MV) + 1

RECURSIVE ImagesFrom(_, _, _)
ImagesFrom(op, V, i) ==
    IF i > Len(V) THEN <<>> ELSE <<ApplyOperator(op, V[i])>> \o ImagesFrom(op, V, i + 1)

\* guess_mv after lines 246-253: the cache and the images of the new columns.
CachedImages(op, V, MV) == MV \o ImagesFrom(op, V, FirstMissing(V, MV))

\* guess_vmv = numpy.dot(guess_v.conj().T, guess_mv), entry (j, k) scaled by
\* sqrt(d_j) / sqrt(d_k): a rational matrix with the eigenvalues of
\* guess_vmv, whose eigenvectors u give those of guess_vmv as u_j / sqrt(d_j).
Projected(V, MV) ==
    [j \in 1..Len(V) |-> [k \in 1..Len(V) |->
        ZScale(QDiv(QOne, V[k].d), ZOfC(Dot(V[j].v, MV[k].v)))]]

\* numpy.linalg.eigh on the lower triangle, for one or two columns and
\* rational eigenvalues: the eigenpairs in ascending order, each eigenvector
\* in the scaled coordinates.  ok is FALSE where this model has no answer.
Eigh(A, V) ==
    IF Len(A) = 1
    THEN [ok |-> TRUE, pairs |-> <<[lambda |-> A[1][1][1], u |-> <<ZOne>>]>>]
    ELSE IF Len(A) = 2
    THEN LET a == A[1][1][1]
             e == A[2][2][1]
             c == A[2][1]
             b == ZScale(QDiv(V[1].d, V[2].d), ZConj(c))
             disc == QAdd(QMul(QSub(a, e), QSub(a, e)), QMul(QInt(4), ZMul(b, c)[1]))
             first == [lambda |-> a, u |-> <<ZOne, ZZero>>]
             second == [lambda |-> e, u |-> <<ZZero, ZOne>>]
         IN  IF c = ZZero
             THEN [ok |-> TRUE,
                   pairs |-> IF QLess(e, a) THEN <<second, first>> ELSE <<first, second>>]
             ELSE IF QIsSquare(disc)
             THEN LET root == QSqrt(disc)
                      lo == QDiv(QSub(QAdd(a, e), root), QInt(2))
                      hi == QDiv(QAdd(QAdd(a, e), root), QInt(2))
                  IN  [ok |-> TRUE,
                       pairs |-> <<[lambda |-> lo, u |-> <<b, ZOfQ(QSub(lo, a))>>],
                                   [lambda |-> hi, u |-> <<b, ZOfQ(QSub(hi, a))>>]>>]
             ELSE [ok |-> FALSE, pairs |-> <<>>]
    ELSE [ok |-> FALSE, pairs |-> <<>>]

\* Lines 265-267: the eigenpairs ordered by ascending eigenvalue.
RECURSIVE InsertPair(_, _)
InsertPair(p, sorted) ==
    IF sorted = <<>> THEN <<p>>
    ELSE IF QLess(p.lambda, Head(sorted).lambda) THEN <<p>> \o sorted
    ELSE <<Head(sorted)>> \o InsertPair(p, Tail(sorted))

RECURSIVE SortPairs(_)
SortPairs(pairs) ==
    IF pairs = <<>> THEN <<>>
    ELSE InsertPair(pairs[Len(pairs)], SortPairs(SubSeq(pairs, 1, Len(pairs) - 1)))

\* Lines 269-271: the first n_lowest eigenpairs.
Lowest(pairs, n) == SubSeq(pairs, 1, Min(n, Len(pairs)))

\* The sum over the columns j of cols[j].v * u[j] / d_j.
Combination(cols, V, u) ==
    LET RECURSIVE Sum(_)
        Sum(j) == IF j > Len(V) THEN RZero(Len(V[1].v))
                  ELSE RAdd(RScale(ZScale(QDiv(QOne, V[j].d), u[j]), RVec(cols[j].v)),
                            Sum(j + 1))
    IN  Sum(1)

\* The squared norm of the eigenvector of guess_vmv: sum of |u_j|^2 / d_j.
Weight(V, u) ==
    LET RECURSIVE Sum(_)
        Sum(j) == IF j > Len(V) THEN QZero
                  ELSE QAdd(QDiv(ZAbsSq(u[j]), V[j].d), Sum(j + 1))
    IN  Sum(1)

\* Lines 274-276 for one eigenpair: trial_v = Y / sqrt(D), trial_mv =
\* M / sqrt(D) and trial_error = (M - lambda * Y) / sqrt(D).
Trial(V, MV, pair) ==
    LET Y == Combination(V, V, pair.u)
        M == Combination(MV, V, pair.u)
    IN  [lambda |-> pair.lambda, Y |-> Y, D |-> Weight(V, pair.u),
         E |-> RSub(M, RScale(ZOfQ(pair.lambda), Y))]

\* An error norm that is never measured.
ErrorNormSq_Zero(col) == QZero

\* numpy.linalg.norm(current_error_v), squared
ErrorNormSq(col) == NormSq(col)

\* Lines 318-325: 1 / (diagonal - lambda), or 1 / eps where that is too small.
DiagonalInverse(diagonal, lambda, tol) ==
    [j \in 1..Len(diagonal) |->
        LET diff_lambda == QSub(diagonal[j], lambda)
        IN  IF QLess(tol, QAbs(diff_lambda)) THEN QDiv(QOne, diff_lambda)
            ELSE QDiv(QOne, tol)]

\* _get_new_directions from column i on.  max_trial_error is kept squared;
\* finite turns FALSE when a new direction divides by zero.
RECURSIVE NewDirectionsFrom(_, _, _, _, _)
NewDirectionsFrom(trials, i, acc, diagonal, tol) ==
    IF i > Len(trials) THEN acc
    ELSE LET t == trials[i]
             current_error_v == ColumnOf(t.E, t.D)
             diagonal_inverse == DiagonalInverse(diagonal, t.lambda, tol)
             numerator == RDot(t.Y, RTimes(diagonal_inverse, t.E))
             denominator == RDot(t.Y, RTimes(diagonal_inverse, t.Y))
         IN  IF MaxAbsBelow(current_error_v, tol)
             THEN NewDirectionsFrom(trials, i + 1, acc, diagonal, tol)
             ELSE NewDirectionsFrom(trials, i + 1,
                    [new_directions |->
                        IF denominator = ZZero THEN acc.new_directions
                        ELSE Append(acc.new_directions,
                                    ColumnOf(RAdd(RNeg(t.E),
                                                  RScale(ZDiv(numerator, denominator), t.Y)),
                                             t.D)),
                     max_trial_error |->
                        QMax(acc.max_trial_error, ErrorNormSq(current_error_v)),
                     finite |-> acc.finite /\ denominator # ZZero],
                    diagonal, tol)

_get_new_directions(trials, diagonal, tol) ==
    NewDirectionsFrom(trials, 1,
                      [new_directions |-> <<>>, max_trial_error |-> QZero, finite |-> TRUE],
                      diagonal, tol)

\* Lines 274-276 for the eigenpairs kept.
Trials(V, MV, pairs) == [i \in 1..Len(pairs) |-> Trial(V, MV, pairs[i])]

\* Lines 278-282: what _iterate returns.  trial_v is computed from the
\* trials, guess_v gains the new directions.
IterateResult(ok, trials, found, V, MV) ==
    [ok |-> ok,
     finite |-> found.finite,
     trial_lambda |-> [i \in 1..Len(trials) |-> trials[i].lambda],
     trial_v |-> [i \in 1..Len(trials) |-> ColumnOf(trials[i].Y, trials[i].D)],
     max_trial_error |-> found.max_trial_error,
     guess_v |-> V \o found.new_directions,
     guess_mv |-> MV]

\* Lines 274-282
IterateTrials(ok, trials, diagonal, tol, V, MV) ==
    IterateResult(ok, trials, _get_new_directions(trials, diagonal, tol), V, MV)

\* Lines 265-282
IterateEigen(eig, diagonal, tol, n, V, MV) ==
    IterateTrials(eig.ok, Trials(V, MV, Lowest(SortPairs(eig.pairs), n)), diagonal, tol,
                  V, MV)

\* Lines 254-282, on the completed cache
IterateCached(diagonal, tol, n, V, MV) ==
    IterateEigen(Eigh(Projected(V, MV), V), diagonal, tol, n, V, MV)

\* _iterate(n_lowest, guess_v, guess_mv)
_iterate(op, diagonal, tol, n, V, MV) ==
    IterateCached(diagonal, tol, n, V, CachedImages(op, V, MV))

-----------------------------------------------------------------------------
(* The solvers and the calls of get_lowest_n. *)

PauliTerm(label, weight) ==
    [term |-> << <<0, label>> >>, coefficient |-> <<weight, 0>>]

IdentityTerm(weight) == [term |-> <<>>, coefficient |-> <<weight, 0>>]

\* A one-site term with the coefficient weight * 1j.
ImaginaryTerm(label, weight) ==
    [term |-> << <<0, label>> >>, coefficient |-> <<0, weight>>]

\* QubitDavidson on Z, X, Y and 2 + Z of one site, on the constant 2 of no
\* site (dimension 1), and on 1j * X, which is not Hermitian.
DavOperators ==
    {<<PauliTerm("Z", 1)>>, <<PauliTerm("X", 1)>>, <<PauliTerm("Y", 1)>>,
     <<IdentityTerm(2), PauliTerm("Z", 1)>>, <<IdentityTerm(2)>>,
     <<ImaginaryTerm("X", 1)>>}

\* The column with the integer entries w.
Raw(w) == Canon(w, QOne)

\* The column w / 4.
Quarter(w) == Canon(w, QInt(16))

\* The column w / 2.
Half(w) == Canon(w, QInt(4))

Guesses ==
    {<<Raw(<< <<1, 0>>, <<0, 0>> >>)>>,
     <<Raw(<< <<1, 0>>, <<1, 0>> >>)>>,
     <<Raw(<< <<1, 0>>, <<2, 0>> >>)>>,
     <<Raw(<< <<1, 0>>, <<0, 1>> >>)>>,
     <<Raw(<< <<0, 0>>, <<0, 0>> >>)>>,
     <<Quarter(<< <<1, 0>>, <<1, 0>> >>)>>,
     <<Raw(<< <<1, 0>>, <<0, 0>> >>), Raw(<< <<0, 0>>, <<1, 0>> >>)>>,
     <<Raw(<< <<1, 0>>, <<0, 0>> >>), Raw(<< <<2, 0>>, <<0, 0>> >>)>>,
     <<Raw(<< <<1, 0>>, <<0, 0>>, <<0, 0>> >>)>>,
     <<Raw(<< <<1, 0>> >>)>>}

\* initial_guess.shape[0]
Rows(matrix) == Len(matrix[1].v)

\* Unit columns for the answers of scipy.linalg.orth.
UnitColumns(rows) ==
    IF rows = 1 THEN {Unit(<< <<1, 0>> >>)}
    ELSE IF rows = 2
    THEN {Unit(<< <<1, 0>>, <<0, 0>> >>), Unit(<< <<0, 0>>, <<1, 0>> >>),
          Unit(<< <<1, 0>>, <<1, 0>> >>), Unit(<< <<1, 0>>, <<-1, 0>> >>),
          Unit(<< <<1, 0>>, <<2, 0>> >>), Unit(<< <<-2, 0>>, <<1, 0>> >>),
          Unit(<< <<1, 0>>, <<0, 1>> >>), Unit(<< <<1, 0>>, <<0, -1>> >>)}
    ELSE {}

\* An orthonormal basis of the span of the columns, by Gram-Schmidt.
RECURSIVE BasisFrom(_, _, _)
BasisFrom(finalized, cols, i) ==
    IF i > Len(cols) THEN finalized
    ELSE LET left == SubtractColumns(cols[i], finalized, 1, Len(finalized) + 1)
         IN  IF left.v = VZero(Len(left.v)) THEN BasisFrom(finalized, cols, i + 1)
             ELSE BasisFrom(Append(finalized, Normalized(left)), cols, i + 1)

\* scipy.linalg.orth(matrix): some orthonormal basis of the range of the
\* matrix, with as many columns as its rank.
Orth(matrix) ==
    LET basis == BasisFrom(<<>>, matrix, 1)
        r == Len(basis)
    IN  {U \in [1..r -> UnitColumns(Rows(matrix))] :
            /\ IsOrthonormal(U)
            /\ \A k \in 1..r :
                  SubtractColumns(U[k], basis, 1, r + 1).v = VZero(Rows(matrix))}

\* The directions a column of non-negative random parts can have.
RandomDirections(rows) ==
    IF rows = 1 THEN {Unit(<< <<1, 0>> >>)}
    ELSE {Unit(<< <<1, 0>>, <<0, 0>> >>), Unit(<< <<0, 0>>, <<1, 0>> >>),
          Unit(<< <<1, 0>>, <<1, 0>> >>), Unit(<< <<1, 0>>, <<2, 0>> >>),
          Unit(<< <<2, 0>>, <<1, 0>> >>), Unit(<< <<1, 0>>, <<0, 1>> >>)}

\* _generate_random_vectors(col, row): scipy.linalg.orth of a random matrix,
\* orthonormal columns as many as the rank of the draw, which is at most col.
_generate_random_vectors(col, row) ==
    {U \in UNION {[1..r -> RandomDirections(row)] : r \in 0..Min(col, row)} :
        IsOrthonormal(U)}

\* The columns numpy.random.rand(row, 1) + numpy.random.rand(row, 1) * 1.0j
\* is drawn from.
RandomColumns(rows) ==
    IF rows = 1 THEN {ZeroColumn(1), Half(<< <<1, 0>> >>)}
    ELSE {ZeroColumn(2), Half(<< <<1, 0>>, <<0, 0>> >>), Half(<< <<0, 0>>, <<1, 0>> >>),
          Half(<< <<1, 0>>, <<1, 1>> >>)}

-----------------------------------------------------------------------------
(* Davidson.get_lowest_n *)

\* A range check without its upper end.
NLowestOutOfRange_NoUpper(n, diagonal) == n <= 0

\* Line 76
NLowestOutOfRange(n, diagonal) == n <= 0 \/ n > Len(diagonal)

\* Line 82
DimensionMismatch(matrix, diagonal) == Rows(matrix) # Len(diagonal)

\* Line 89: numpy.max(numpy.abs(initial_guess)) < self.eps
AllBelow(matrix, tol) == \A k \in 1..Len(matrix) : MaxAbsBelow(matrix[k], tol)

DavIdle ==
    /\ linear_operator = <<>>
    /\ linear_operator_diagonal = <<>>
    /\ eps = QOne
    /\ n_lowest = 0
    /\ initial_guess_arg = <<>>
    /\ max_iterations = 0
    /\ initial_guess = <<>>
    /\ vector_columns = 0
    /\ total_columns = 0
    /\ num_trial = 0
    /\ guess_v = <<>>
    /\ guess_mv = <<>>
    /\ success = FALSE
    /\ num_iterations = 0
    /\ eigen_values = <<>>
    /\ eigen_vectors = <<>>
    /\ eigen_bound = FALSE
    /\ max_trial_error = QZero
    /\ apply_count = <<>>
    /\ projections = 0
    /\ proj_v = <<>>
    /\ proj_mv = <<>>
    /\ inject_rounds = 0
    /\ inject_sizes = <<>>
    /\ dav_steps = 0
    /\ dav_pc = "idle"

\* A solver on one of the operators and a call of get_lowest_n.  The names
\* eigen_values and eigen_vectors are not bound yet (eigen_bound), and
\* guess_mv = <<>> stands for None.
DavStart ==
    /\ linear_operator \in DavOperators
    /\ linear_operator_diagonal = Diagonal(linear_operator)
    /\ eps \in Tolerances
    /\ n_lowest \in 0..MaxNLowest
    /\ initial_guess_arg \in Guesses
    /\ max_iterations \in 0..MaxIterations
    /\ initial_guess = <<>>
    /\ vector_columns = 0
    /\ total_columns = 0
    /\ num_trial = 0
    /\ guess_v = <<>>
    /\ guess_mv = <<>>
    /\ success = FALSE
    /\ num_iterations = 0
    /\ eigen_values = <<>>
    /\ eigen_vectors = <<>>
    /\ eigen_bound = FALSE
    /\ max_trial_error = QZero
    /\ apply_count = <<>>
    /\ projections = 0
    /\ proj_v = <<>>
    /\ proj_mv = <<>>
    /\ inject_rounds = 0
    /\ inject_sizes = <<>>
    /\ dav_steps = 0
    /\ dav_pc = "called"

\* Lines 99-102: the loop starts on the basis V.
StartLoop(V) ==
    /\ success' = FALSE
    /\ num_iterations' = 0
    /\ guess_v' = V
    /\ guess_mv' = <<>>
    /\ dav_pc' = "loop"

\* get_lowest_n up to the loop: the three checks ("error"), scipy.linalg.orth,
\* and the entry of append_random_vectors (lines 157-164) if columns are
\* missing, with its own ValueError of line 159 ("too_many").
GetLowestNCall ==
    /\ dav_pc = "called"
    /\ IF \/ NLowestOutOfRange(n_lowest, linear_operator_diagonal)
          \/ DimensionMismatch(initial_guess_arg, linear_operator_diagonal)
          \/ AllBelow(initial_guess_arg, eps)
       THEN /\ dav_pc' = "error"
            /\ UNCHANGED <<davAppend, guess_v, guess_mv, success, num_iterations>>
       ELSE \E U \in Orth(initial_guess_arg) :
               /\ initial_guess' = U
               /\ IF Len(U) < n_lowest
                  THEN LET col == n_lowest - Len(U)
                       IN  /\ vector_columns' = Len(U)
                           /\ total_columns' = Len(U) + col
                           /\ num_trial' = 0
                           /\ dav_pc' = IF Len(U) + col > Rows(U) THEN "too_many"
                                        ELSE "append"
                           /\ UNCHANGED <<guess_v, guess_mv, success, num_iterations>>
                  ELSE /\ StartLoop(U)
                       /\ UNCHANGED <<vector_columns, total_columns, num_trial>>
    /\ UNCHANGED <<davArgs, eigen_values, eigen_vectors, eigen_bound, max_trial_error,
                   davHistory>>
    /\ dav_steps' = dav_steps + 1
    /\ UNCHANGED notDav

\* One round of the loop of append_random_vectors (lines 165-179), and the
\* return (line 180) when the round ends the loop.  orthonormalize works on
\* the stacked array in place and its result is not used.
AppendRandomVectors ==
    /\ dav_pc = "append"
    /\ \E R \in _generate_random_vectors(total_columns - vector_columns,
                                         Rows(initial_guess)) :
          LET stacked == initial_guess \o R
              after == orthonormalize(stacked, vector_columns, eps).array
              trial == num_trial + 1
              added == Len(after) # vector_columns
              columns == IF added THEN Len(after) ELSE vector_columns
          IN  /\ initial_guess' = after
              /\ num_trial' = IF added THEN 1 ELSE trial
              /\ vector_columns' = columns
              /\ IF (~added /\ trial > 3) \/ ~(columns < total_columns)
                 THEN StartLoop(after)
                 ELSE /\ dav_pc' = "append"
                      /\ UNCHANGED <<guess_v, guess_mv, success, num_iterations>>
    /\ UNCHANGED <<total_columns, davArgs, eigen_values, eigen_vectors, eigen_bound,
                   max_trial_error, davHistory>>
    /\ dav_steps' = dav_steps + 1
    /\ UNCHANGED notDav

\* Lines 103-109: one call of _iterate and the convergence test.  The run
\* leaves the model where eigh has no modelled answer ("unmodelled") and
\* where a new direction divides by zero ("nonfinite").
Iterate ==
    /\ dav_pc = "loop"
    /\ num_iterations < max_iterations /\ ~success
    /\ \E r \in {_iterate(linear_operator, linear_operator_diagonal, eps, n_lowest,
                         guess_v, guess_mv)} :
           /\ guess_mv' = r.guess_mv
           /\ apply_count' =
                 [i \in 1..Len(guess_v) |->
                     (IF i <= Len(apply_count) THEN apply_count[i] ELSE 0)
                     + (IF i >= FirstMissing(guess_v, guess_mv) THEN 1 ELSE 0)]
           /\ IF ~r.ok
              THEN /\ dav_pc' = "unmodelled"
                   /\ UNCHANGED <<guess_v, success, eigen_values, eigen_vectors,
                                  eigen_bound, max_trial_error, projections, proj_v,
                                  proj_mv>>
              ELSE /\ projections' = projections + 1
                   /\ proj_v' = guess_v
                   /\ proj_mv' = r.guess_mv
                   /\ eigen_values' = r.trial_lambda
                   /\ eigen_vectors' = r.trial_v
                   /\ eigen_bound' = TRUE
                   /\ max_trial_error' = r.max_trial_error
                   /\ guess_v' = r.guess_v
                   /\ IF QLess(r.max_trial_error, QMul(eps, eps))
                      THEN /\ success' = TRUE
                           /\ dav_pc' = "returned"
                      ELSE /\ success' = FALSE
                           /\ dav_pc' = IF r.finite THEN "expand" ELSE "nonfinite"
    /\ UNCHANGED <<num_iterations, inject_rounds, inject_sizes, davArgs, davAppend>>
    /\ dav_steps' = dav_steps + 1
    /\ UNCHANGED notDav

\* A loop condition that does not look at the basis.
InjectAgain_Always(V, count_mvs, trial) == trial < 3

\* Line 114: guess_v.shape[1] <= count_mvs and num_trial < 3
InjectAgain(V, count_mvs, trial) == Len(V) <= count_mvs /\ trial < 3

\* Lines 116-121: the bases one round can leave, over the random draws.
InjectRound(V, count_mvs, n, tol) ==
    {Returned(orthonormalize(V \o B, count_mvs, tol))
     : B \in [1..n -> RandomColumns(Rows(V))]}

\* Lines 114-122 from a basis V after num_trial rounds: every basis the
\* loop can end with, with the number of rounds it took and the number of
\* columns of the basis at each test of line 114.
RECURSIVE Inject(_, _, _, _, _)
Inject(V, count_mvs, trial, n, tol) ==
    IF InjectAgain(V, count_mvs, trial)
    THEN {[guess_v |-> out.guess_v, num_trial |-> out.num_trial,
           sizes |-> <<Len(V)>> \o out.sizes]
          : out \in UNION {Inject(W, count_mvs, trial + 1, n, tol)
                           : W \in InjectRound(V, count_mvs, n, tol)}}
    ELSE {[guess_v |-> V, num_trial |-> trial, sizes |-> <<Len(V)>>]}

\* Lines 111-123: the new directions are orthonormalized against the cached
\* columns, random columns are injected while none is left, and the
\* iteration is counted.
Expand ==
    /\ dav_pc = "expand"
    /\ LET count_mvs == Len(guess_mv)
       IN  \E out \in Inject(Returned(orthonormalize(guess_v, count_mvs, eps)),
                             count_mvs, 0, n_lowest, eps) :
              /\ guess_v' = out.guess_v
              /\ inject_rounds' = out.num_trial
              /\ inject_sizes' = out.sizes
    /\ num_iterations' = num_iterations + 1
    /\ dav_pc' = "loop"
    /\ UNCHANGED <<guess_mv, success, eigen_values, eigen_vectors, eigen_bound,
                   max_trial_error, apply_count, projections, proj_v, proj_mv>>
    /\ UNCHANGED <<davArgs, davAppend>>
    /\ dav_steps' = dav_steps + 1
    /\ UNCHANGED notDav

\* Line 103 false and line 124: the budget is used up.  The return reads
\* eigen_values and eigen_vectors, which are bound by the first iteration
\* only: with none it raises UnboundLocalError.
LoopExit ==
    /\ dav_pc = "loop"
    /\ ~(num_iterations < max_iterations /\ ~success)
    /\ dav_pc' = IF eigen_bound THEN "returned" ELSE "raised"
    /\ UNCHANGED <<davArgs, davAppend, davLoop, davHistory>>
    /\ dav_steps' = dav_steps + 1
    /\ UNCHANGED notDav

DavNext == GetLowestNCall \/ AppendRandomVectors \/ Iterate \/ Expand \/ LoopExit

-----------------------------------------------------------------------------
(* Properties of get_lowest_n. *)

\* operator * v - lambda * v for the column v = col
Residual(op, lambda, col) ==
    ColumnOf(RSub(RVec(Matvec(op, col.v)), RScale(ZOfQ(lambda), RVec(col.v))), col.d)

\* Every entry of the residual of every pair in hand is below eps in
\* absolute value.
AllResidualsBelow ==
    \A i \in 1..Len(eigen_vectors) :
        LET r == Residual(linear_operator, eigen_values[i], eigen_vectors[i])
        IN  \A j \in 1..Len(r.v) :
               QLess(QDiv(QInt(CAbsSq(r.v[j])), r.d), QMul(eps, eps))

C4_ExhaustionReturns ==
    (dav_pc \in {"returned", "raised"} /\ ~success)
        => (dav_pc = "returned" /\ eigen_bound)

\* The three cases of the validation, from the arguments of the call.
OutOfRange == n_lowest < 1 \/ n_lowest > Len(linear_operator_diagonal)

RowsDiffer == Len(initial_guess_arg[1].v) # Len(linear_operator_diagonal)

AllEntriesBelow ==
    \A k \in 1..Len(initial_guess_arg) : \A j \in 1..Len(initial_guess_arg[k].v) :
        QLess(QDiv(QInt(CAbsSq(initial_guess_arg[k].v[j])), initial_guess_arg[k].d),
              QMul(eps, eps))

C6_ExactlyNLowest ==
    /\ dav_pc = "returned" =>
          Len(eigen_values) = n_lowest /\ Len(eigen_vectors) = n_lowest
    /\ (dav_pc = "loop" /\ projections = 0) => Len(guess_v) >= n_lowest

\* At the latest projection guess_mv had the columns of guess_v, each the
\* image of the column of guess_v it stands for, and each column had been
\* given to the operator once; no column is given to the operator twice.
C10_CacheInvariant ==
    /\ projections > 0 =>
          /\ Len(proj_mv) = Len(proj_v)
          /\ \A i \in 1..Len(proj_v) :
                /\ proj_mv[i].v = Matvec(linear_operator, proj_v[i].v)
                /\ proj_mv[i].d = proj_v[i].d
                /\ apply_count[i] = 1
    /\ \A i \in 1..Len(apply_count) : apply_count[i] <= 1

\* No step changes a column of guess_v whose image is in guess_mv.
C10_CachedColumnsFixed ==
    [][\A i \in 1..Len(guess_mv) : i <= Len(guess_v') /\ guess_v'[i] = guess_v[i]]_vars

\* C10: each time V^H * MV is formed, MV has as many columns as V and
\* MV[:, i] = operator * V[:, i] for the current V; the operator has been
\* applied exactly once to each of these column indices and never twice to
\* any; a column of V whose image is cached is never modified afterwards.
C10_ImagesCached == []C10_CacheInvariant /\ C10_CachedColumnsFixed

\* The second projection of a run, on a basis of two columns of which the
\* first was cached by the first iteration.
C10_Witness ==
    projections = 2 /\ Len(proj_v) = 2 /\ Len(proj_mv) = 2 /\ apply_count = <<1, 1>>

\* C11: each time V^H * MV is formed, the columns of the basis V are
\* mutually orthonormal: unit columns, pairwise orthogonal, none of them a
\* column that an orthonormalization found dependent on the earlier ones.
C11_BasisOrthonormal ==
    projections > 0 => IsOrthonormal(proj_v)

\* One iteration's handling of its new directions (lines 111-123), with
\* count_mvs = Len(guess_mv): the tests of line 114 saw the basis sizes
\* inject_sizes', and inject_rounds' rounds of injection were performed.
InjectionDiscipline ==
    LET count_mvs == Len(guess_mv)
        sizes == inject_sizes'
        rounds == inject_rounds'
    IN  /\ Len(sizes) = rounds + 1
        /\ rounds <= 3
        /\ sizes[1] <= Len(guess_v)
        /\ \A r \in 1..rounds : sizes[r] <= count_mvs
        /\ rounds < 3 => sizes[rounds + 1] > count_mvs
        /\ Len(guess_v') = sizes[rounds + 1]
        /\ \A i \in 1..count_mvs : guess_v'[i] = guess_v[i]
        /\ \A i \in (count_mvs + 1)..Len(guess_v') :
              guess_v'[i].d = QInt(Dot(guess_v'[i].v, guess_v'[i].v)[1])

\* C12: in a non-converged iteration a round of random injection is
\* performed only while V has no more columns than MV, first after the
\* re-orthonormalization of the new directions; there are at most 3 rounds,
\* fewer only if V then has more columns than MV; the cached prefix is kept
\* and every column past it is left orthonormalized (of unit norm).
C12_InjectionRounds == [][dav_pc = "expand" => InjectionDiscipline]_vars

\* An iteration that injected once and stopped because a column appeared.
C12_Witness ==
    /\ dav_pc = "loop"
    /\ inject_rounds = 1
    /\ inject_sizes[1] <= Len(guess_mv)
    /\ inject_sizes[2] > Len(guess_mv)
    /\ Len(guess_v) = inject_sizes[2]

\* A call of get_lowest_n is under way.
UnderWay == dav_pc \in {"called", "append", "loop", "expand"}

\* The call has passed the checks of lines 76-91.
Validated == dav_pc \in {"append", "loop", "expand"}

\* The run has left what is modelled of eigh and of the division of line 328.
LeftModel == dav_pc \in {"unmodelled", "nonfinite"}

\* The call has returned: converged with success, exhausted without.
Ended == dav_pc = "returned"

\* C13: a call that has passed validation comes to return, converged or
\* exhausted, and no run forms more than max_iterations projections.
C13_Terminates ==
    /\ [](projections <= max_iterations)
    /\ Validated ~> (Ended \/ LeftModel)

\* Every call that has passed validation comes to a stop: it returns, it
\* raises at line 124, or it leaves what is modelled.
ComesToAStop == Validated ~> ~UnderWay

-----------------------------------------------------------------------------
(* Specifications.  Each one runs one component from its constructor       *)
(* arguments; the variables of the other components stay idle.             *)

InitMatvec == LqoStart /\ OptIdle /\ OptionsUnset /\ ParIdle /\ OrthIdle /\ DavIdle

SpecMatvec == InitMatvec /\ [][LqoNext]_vars

InitOptions == OptStart /\ LqoIdle /\ ParIdle /\ OrthIdle /\ DavIdle

SpecOptions == InitOptions /\ [][OptNext]_vars

InitParallel == ParStart /\ LqoIdle /\ OptIdle /\ OrthIdle /\ DavIdle

SpecParallel == InitParallel /\ [][ParNext]_vars

InitOrth == OrthStart /\ LqoIdle /\ OptIdle /\ OptionsUnset /\ ParIdle /\ DavIdle

SpecOrth == InitOrth /\ [][OrthNext]_vars

InitDavidson == DavStart /\ LqoIdle /\ OptIdle /\ OptionsUnset /\ ParIdle /\ OrthIdle

SpecDavidson == InitDavidson /\ [][DavNext]_vars

\* The interpreter keeps running a call until it returns or raises: a step
\* of get_lowest_n is taken wherever the call is under way.  Every step of
\* DavNext is a step of Advance, and DavNext has a step wherever UnderWay.
Advance == UnderWay /\ dav_steps' = dav_steps + 1

SpecDavidsonLive == InitDavidson /\ [][DavNext]_vars /\ WF_dav_steps(Advance)

====
